---- MODULE Spec2Model ----
(***************************************************************************)
(* A model of GiterLab/go-coap: the CoAP message codec (message.go), the   *)
(* datagram server (server.go) and its process-wide flags (debug.go).      *)
(*                                                                         *)
(* Bytes are naturals 0..255, byte strings are sequences of bytes.         *)
(* A Go interface{} option value is a record [type, n, b]: its dynamic     *)
(* type, its number (numeric types) and its bytes (string, []byte).        *)
(***************************************************************************)
EXTENDS Integers, Sequences, FiniteSets, TLC

VARIABLES
    m,        \* codec: the Message under construction (message.go:437)
    pre,      \* codec: the value of m when MarshalBinary was last called
    ins,      \* codec: the options of m in pure insertion order
    wire,     \* codec: what the last MarshalBinary call produced
    rt,       \* codec: what ParseMessage produced from wire
    call,     \* codec: the last option call made on m, with its arguments
              \*        and the options m held before it
    data,     \* decoder: the datagram handed to ParseMessage
    res,      \* decoder: what ParseMessage returned for data
    heap,     \* server: the byte buffers; heap[1] is Serve's read buffer
    tasks,    \* server: one record per dispatched handlePacket goroutine, with
              \*         the writes it made on the listener socket
    healthMonitorEnable, \* debug.go:19
    closed,   \* server: the listener has been closed
    serveRet, \* server: "running", or the error Serve returned
    crashed   \* server: an unrecovered panic has ended the process

codecVars == <<m, pre, ins, wire, rt, call>>
decVars   == <<data, res>>
srvVars   == <<heap, tasks, healthMonitorEnable, closed, serveRet, crashed>>
vars      == <<m, pre, ins, wire, rt, call, data, res,
               heap, tasks, healthMonitorEnable, closed, serveRet, crashed>>

(***************************************************************************)
(* Bounds of the model.                                                    *)
(***************************************************************************)
MaxOpts == 3          \* options held by a message under construction
MaxBody == 4          \* bytes after the header of an enumerated datagram
MaxPackets == 2       \* datagrams the listener receives
MaxOverflowOpts == 2  \* options of a message in the overflow specification

(***************************************************************************)
(* Program constants.                                                      *)
(***************************************************************************)
Confirmable == 0
NonConfirmable == 1
Acknowledgement == 2
Reset == 3

GET == 1
Content == 69

IfMatch == 1
URIHost == 3
ETag == 4
IfNoneMatch == 5
Observe == 6
URIPort == 7
LocationPath == 8
URIPath == 11
ContentFormat == 12
MaxAge == 14
URIQuery == 15
Accept == 17
LocationQuery == 20
ProxyURI == 35
ProxyScheme == 39
Size1 == 60
GiterLabID == 65000
GiterLabKey == 65001
AccessID == 65002
AccessKey == 65003
CheckCRC32 == 65004
EncoderType == 65005
EncoderID == 65006
Flags == 65007
PackageNumber == 65100

AppJSON == 50

extoptByteCode == 13
extoptByteAddend == 13
extoptWordCode == 14
extoptWordAddend == 269
extoptError == 15

optionDefsLen == 65536   \* var optionDefs = [65536]optionDef{...}
maxPktLen == 1500

Pow8 == 256
Pow16 == 65536
Pow24 == 16777216

(***************************************************************************)
(* Go values.                                                              *)
(***************************************************************************)
VString(s)      == [type |-> "string",    n |-> 0, b |-> s]
VBytes(s)    == [type |-> "[]byte",    n |-> 0, b |-> s]
VUint32(v)      == [type |-> "uint32",    n |-> v, b |-> <<>>]
VInt(v)      == [type |-> "int",       n |-> v, b |-> <<>>]
VMedia(v)    == [type |-> "MediaType", n |-> v, b |-> <<>>]
VBool(v)     == [type |-> "bool",      n |-> v, b |-> <<>>]
VStrings(s) == [type |-> "[]string",  n |-> 0, b |-> s]
VNil         == [type |-> "nil",       n |-> 0, b |-> <<>>]
VPanic       == [type |-> "panic",     n |-> 0, b |-> <<>>]

\* uint32(v) and OptionID(v). The numbers of this model stay in 0..2^31-1 (the
\* integers of the model checker are 32 bits wide), where the conversion
\* changes nothing; no message of the model holds a negative or larger number.
Uint32(v) == v

\* a | b on uint8 operands
RECURSIVE BitOr(_, _)
BitOr(a, b) ==
    IF a = 0 THEN b
    ELSE IF b = 0 THEN a
    ELSE (IF (a % 2 = 1) \/ (b % 2 = 1) THEN 1 ELSE 0) + 2 * BitOr(a \div 2, b \div 2)

(***************************************************************************)
(* The option registry: var optionDefs.                                    *)
(***************************************************************************)
Def(f, lo, hi) == [valueFormat |-> f, minLen |-> lo, maxLen |-> hi]

optionDefs(id) ==
    CASE id = IfMatch       -> Def("valueOpaque", 0, 8)
      [] id = URIHost       -> Def("valueString", 1, 255)
      [] id = ETag          -> Def("valueOpaque", 1, 8)
      [] id = IfNoneMatch   -> Def("valueEmpty", 0, 0)
      [] id = Observe       -> Def("valueUint", 0, 3)
      [] id = URIPort       -> Def("valueUint", 0, 2)
      [] id = LocationPath  -> Def("valueString", 0, 255)
      [] id = URIPath       -> Def("valueString", 0, 255)
      [] id = ContentFormat -> Def("valueUint", 0, 2)
      [] id = MaxAge        -> Def("valueUint", 0, 4)
      [] id = URIQuery      -> Def("valueString", 0, 255)
      [] id = Accept        -> Def("valueUint", 0, 2)
      [] id = LocationQuery -> Def("valueString", 0, 255)
      [] id = ProxyURI      -> Def("valueString", 1, 1034)
      [] id = ProxyScheme   -> Def("valueString", 1, 255)
      [] id = Size1         -> Def("valueUint", 0, 4)
      [] id = GiterLabID    -> Def("valueString", 0, 255)
      [] id = GiterLabKey   -> Def("valueString", 0, 255)
      [] id = AccessID      -> Def("valueString", 0, 255)
      [] id = AccessKey     -> Def("valueString", 0, 255)
      [] id = CheckCRC32    -> Def("valueUint", 0, 4)
      [] id = EncoderType   -> Def("valueUint", 0, 4)
      [] id = EncoderID     -> Def("valueUint", 0, 4)
      [] id = Flags         -> Def("valueUint", 0, 4)
      [] id = PackageNumber -> Def("valueUint", 0, 4)
      [] OTHER              -> Def("valueUnknown", 0, 0)

(***************************************************************************)
(* The integer codec.                                                      *)
(***************************************************************************)
encodeInt(v) ==
    IF v = 0 THEN <<>>
    ELSE IF v < Pow8 THEN <<v>>
    ELSE IF v < Pow16 THEN <<v \div Pow8, v % Pow8>>
    ELSE IF v < Pow24 THEN <<v \div Pow16, (v \div Pow8) % Pow8, v % Pow8>>
    ELSE <<v \div Pow24, (v \div Pow16) % Pow8, (v \div Pow8) % Pow8, v % Pow8>>

\* big-endian value of b, zero-extended on the left; len(b) <= 4 at every call
RECURSIVE decodeInt(_)
decodeInt(b) ==
    IF Len(b) = 0 THEN 0
    ELSE decodeInt(SubSeq(b, 1, Len(b) - 1)) * Pow8 + b[Len(b)]

(***************************************************************************)
(* option.toBytes: a type switch on the value's dynamic type alone.        *)
(***************************************************************************)
toBytes_NoPanic(o) ==
    IF o.Value.type \in {"string", "[]byte"}
    THEN [panic |-> FALSE, b |-> o.Value.b]
    ELSE [panic |-> FALSE, b |-> encodeInt(Uint32(o.Value.n))]

toBytes(o) ==
    IF o.Value.type \in {"string", "[]byte"}
    THEN [panic |-> FALSE, b |-> o.Value.b]
    ELSE IF o.Value.type \in {"MediaType", "int", "int32", "uint", "uint32"}
    THEN [panic |-> FALSE, b |-> encodeInt(Uint32(o.Value.n))]
    ELSE [panic |-> TRUE, b |-> <<>>]

(***************************************************************************)
(* parseOptionValue: indexes the 65536-entry registry with a uint32 ID;    *)
(* an index past the end of the array is a run-time panic.                 *)
(***************************************************************************)
parseOptionValue(optionID, valueBuf) ==
    IF optionID >= optionDefsLen THEN VPanic
    ELSE LET def == optionDefs(optionID) IN
         IF def.valueFormat = "valueUnknown" THEN VNil
         ELSE IF Len(valueBuf) < def.minLen \/ Len(valueBuf) > def.maxLen THEN VNil
         ELSE IF def.valueFormat = "valueUint"
              THEN IF optionID = ContentFormat \/ optionID = Accept
                   THEN VMedia(decodeInt(valueBuf))
                   ELSE VUint32(decodeInt(valueBuf))
         ELSE IF def.valueFormat = "valueString" THEN VString(valueBuf)
         ELSE VBytes(valueBuf)

(***************************************************************************)
(* type options []option and its sort.Interface.                           *)
(***************************************************************************)
Less_Unstable(o, i, j) ==
    IF o[i].ID = o[j].ID THEN i > j ELSE o[i].ID < o[j].ID

Less(o, i, j) ==
    IF o[i].ID = o[j].ID THEN i < j ELSE o[i].ID < o[j].ID

\* Swap that stores only one of the two entries
Swap_Overwrite(o, i, j) == [o EXCEPT ![i] = o[j]]

Swap(o, i, j) == [o EXCEPT ![i] = o[j], ![j] = o[i]]

\* sort.Stable on fewer than 20 elements is one insertion sort over
\* Len/Less/Swap: for i { for j := i; j > a && Less(j, j-1); j-- { Swap } }
RECURSIVE sinkDown(_, _)
sinkDown(o, j) ==
    IF j > 1 /\ Less(o, j, j - 1) THEN sinkDown(Swap(o, j, j - 1), j - 1) ELSE o

RECURSIVE insertionSort(_, _)
insertionSort(o, i) ==
    IF i > Len(o) THEN o ELSE insertionSort(sinkDown(o, i), i + 1)

sortStable(o) == insertionSort(o, 2)

\* Minus that stops filtering after the first entry it drops
Minus_FirstOnly(o, oid) ==
    LET F[k \in 0..Len(o)] ==
          IF k = 0 THEN [rv |-> <<>>, dropped |-> FALSE]
          ELSE IF o[k].ID # oid \/ F[k - 1].dropped
               THEN [F[k - 1] EXCEPT !.rv = Append(@, o[k])]
               ELSE [F[k - 1] EXCEPT !.dropped = TRUE]
    IN F[Len(o)].rv

Minus(o, oid) ==
    LET F[k \in 0..Len(o)] ==
          IF k = 0 THEN <<>>
          ELSE IF o[k].ID # oid THEN Append(F[k - 1], o[k]) ELSE F[k - 1]
    IN F[Len(o)]

(***************************************************************************)
(* Message accessors and mutators.                                         *)
(***************************************************************************)
Options(msg, o) ==
    LET F[k \in 0..Len(msg.opts)] ==
          IF k = 0 THEN <<>>
          ELSE IF msg.opts[k].ID = o THEN Append(F[k - 1], msg.opts[k].Value)
               ELSE F[k - 1]
    IN F[Len(msg.opts)]

Option(msg, o) ==
    IF \E k \in 1..Len(msg.opts) : msg.opts[k].ID = o
    THEN LET k == CHOOSE k \in 1..Len(msg.opts) :
                    /\ msg.opts[k].ID = o
                    /\ \A h \in 1..(k - 1) : msg.opts[h].ID # o
         IN msg.opts[k].Value
    ELSE VNil

removeOption(o, opID) == Minus(o, opID)

\* a slice of strings is expanded into one entry per element
addOption(o, opID, val) ==
    IF val.type = "[]string"
    THEN o \o [k \in 1..Len(val.b) |-> [ID |-> opID, Value |-> VString(val.b[k])]]
    ELSE Append(o, [ID |-> opID, Value |-> val])

setOption(o, opID, val) == addOption(removeOption(o, opID), opID, val)

(***************************************************************************)
(* Message.MarshalBinary.                                                  *)
(***************************************************************************)
extendOpt(opt) ==
    IF opt >= extoptByteAddend
    THEN IF opt >= extoptWordAddend
         THEN [opt |-> extoptWordCode, ext |-> opt - extoptWordAddend]
         ELSE [opt |-> extoptByteCode, ext |-> opt - extoptByteAddend]
    ELSE [opt |-> opt, ext |-> 0]

\* byte(ext) and uint16(ext) keep the low 8 and 16 bits
writeExt(opt, ext) ==
    IF opt = extoptByteCode THEN <<ext % Pow8>>
    ELSE IF opt = extoptWordCode THEN <<(ext % Pow16) \div Pow8, ext % Pow8>>
    ELSE <<>>

writeOptHeader(delta, length) ==
    LET d == extendOpt(delta)
        l == extendOpt(length)
    IN <<BitOr((d.opt * 16) % Pow8, l.opt % Pow8)>>
         \o writeExt(d.opt, d.ext) \o writeExt(l.opt, l.ext)

\* for _, o := range m.opts { b := o.toBytes(); writeOptHeader(...); buf.Write(b) }
\* deltas and lengths are the arguments of the calls of writeOptHeader, vals
\* the arguments of the calls of buf.Write that follow them
RECURSIVE writeOptions(_, _, _)
writeOptions(o, k, prev) ==
    IF k > Len(o)
    THEN [panic |-> FALSE, b |-> <<>>, deltas |-> <<>>, lengths |-> <<>>,
          vals |-> <<>>]
    ELSE LET tb == toBytes(o[k]) IN
         IF tb.panic
         THEN [panic |-> TRUE, b |-> <<>>, deltas |-> <<>>, lengths |-> <<>>,
               vals |-> <<>>]
         ELSE LET rest == writeOptions(o, k + 1, o[k].ID) IN
              [panic   |-> rest.panic,
               b       |-> writeOptHeader(o[k].ID - prev, Len(tb.b)) \o tb.b \o rest.b,
               deltas  |-> <<o[k].ID - prev>> \o rest.deltas,
               lengths |-> <<Len(tb.b)>> \o rest.lengths,
               vals    |-> <<tb.b>> \o rest.vals]

\* opts is m.opts as sort.Stable(&m.opts) leaves it, also when toBytes panics;
\* the only return statement is "return buf.Bytes(), nil"
MarshalBinary(msg) ==
    LET sorted == sortStable(msg.opts)
        hdr == <<BitOr(BitOr(64, (msg.Type * 16) % Pow8), Len(msg.Token) % 16),
                 msg.Code, msg.MessageID \div Pow8, msg.MessageID % Pow8>>
        w == writeOptions(sorted, 1, 0)
    IN [st      |-> IF w.panic THEN "panic" ELSE "ok",
        err     |-> "nil",
        opts    |-> sorted,
        b       |-> IF w.panic THEN <<>>
                    ELSE hdr \o msg.Token \o w.b
                         \o (IF Len(msg.Payload) > 0 THEN <<255>> ELSE <<>>)
                         \o msg.Payload,
        deltas  |-> IF w.panic THEN <<>> ELSE w.deltas,
        lengths |-> IF w.panic THEN <<>> ELSE w.lengths,
        vals    |-> IF w.panic THEN <<>> ELSE w.vals]

(***************************************************************************)
(* Message.UnmarshalBinary and ParseMessage.                               *)
(***************************************************************************)
ZeroMessage ==
    [Type |-> 0, Code |-> 0, MessageID |-> 0, Token |-> <<>>, Payload |-> <<>>,
     opts |-> <<>>]

parseExtOpt_NoAddend(opt, b) ==
    IF opt = extoptByteCode
    THEN IF Len(b) < 1 THEN [err |-> "truncated", opt |-> -1, b |-> b]
         ELSE [err |-> "nil", opt |-> b[1], b |-> Tail(b)]
    ELSE IF opt = extoptWordCode
    THEN IF Len(b) < 2 THEN [err |-> "truncated", opt |-> -1, b |-> b]
         ELSE [err |-> "nil", opt |-> b[1] * Pow8 + b[2],
               b |-> SubSeq(b, 3, Len(b))]
    ELSE [err |-> "nil", opt |-> opt, b |-> b]

parseExtOpt(opt, b) ==
    IF opt = extoptByteCode
    THEN IF Len(b) < 1 THEN [err |-> "truncated", opt |-> -1, b |-> b]
         ELSE [err |-> "nil", opt |-> b[1] + extoptByteAddend, b |-> Tail(b)]
    ELSE IF opt = extoptWordCode
    THEN IF Len(b) < 2 THEN [err |-> "truncated", opt |-> -1, b |-> b]
         ELSE [err |-> "nil", opt |-> b[1] * Pow8 + b[2] + extoptWordAddend,
               b |-> SubSeq(b, 3, Len(b))]
    ELSE [err |-> "nil", opt |-> opt, b |-> b]

\* the loop "for len(b) > 0": b is the unread rest, opts the options recorded
RECURSIVE parseOptions(_, _, _)
parseOptions(b, prev, opts) ==
    IF Len(b) = 0 THEN [err |-> "nil", opts |-> opts, Payload |-> <<>>]
    ELSE IF b[1] = 255 THEN [err |-> "nil", opts |-> opts, Payload |-> Tail(b)]
    ELSE IF b[1] \div 16 = extoptError \/ b[1] % 16 = extoptError
    THEN [err |-> "unexpected extended option marker", opts |-> opts, Payload |-> <<>>]
    ELSE LET d == parseExtOpt(b[1] \div 16, Tail(b)) IN
         IF d.err # "nil" THEN [err |-> d.err, opts |-> opts, Payload |-> <<>>]
         ELSE LET l == parseExtOpt(b[1] % 16, d.b) IN
              IF l.err # "nil" THEN [err |-> l.err, opts |-> opts, Payload |-> <<>>]
              ELSE IF Len(l.b) < l.opt
              THEN [err |-> "truncated", opts |-> opts, Payload |-> <<>>]
              ELSE LET oid == Uint32(prev + d.opt)
                       opval == parseOptionValue(oid, SubSeq(l.b, 1, l.opt))
                   IN IF opval.type = "panic"
                      THEN [err |-> "panic", opts |-> opts, Payload |-> <<>>]
                      ELSE parseOptions(SubSeq(l.b, l.opt + 1, Len(l.b)), oid,
                                        IF opval.type # "nil"
                                        THEN Append(opts, [ID |-> oid, Value |-> opval])
                                        ELSE opts)

\* UnmarshalBinary with the token length test off by one ("tokenLen > 9")
UnmarshalBinary_TokenLen9(d) ==
    IF Len(d) < 4 THEN [err |-> "short packet", msg |-> ZeroMessage]
    ELSE IF d[1] \div 64 # 1 THEN [err |-> "invalid version", msg |-> ZeroMessage]
    ELSE LET type == (d[1] \div 16) % 4
             tokenLen == d[1] % 16
             m1 == [ZeroMessage EXCEPT !.Type = type]
             m2 == [m1 EXCEPT !.Code = d[2], !.MessageID = d[3] * Pow8 + d[4]]
         IN IF tokenLen > 9 THEN [err |-> "invalid token length", msg |-> m1]
            ELSE IF Len(d) < 4 + tokenLen
            THEN [err |-> "truncated",
                  msg |-> [m2 EXCEPT !.Token = [k \in 1..tokenLen |-> 0]]]
            ELSE LET m3 == [m2 EXCEPT !.Token = SubSeq(d, 5, 4 + tokenLen)]
                     p == parseOptions(SubSeq(d, 5 + tokenLen, Len(d)), 0, <<>>)
                 IN [err |-> p.err,
                     msg |-> [m3 EXCEPT !.opts = p.opts, !.Payload = p.Payload]]

\* err is "nil", one of the decode errors, or "panic" (a run-time panic);
\* msg is the receiver as the call leaves it
UnmarshalBinary(d) ==
    IF Len(d) < 4 THEN [err |-> "short packet", msg |-> ZeroMessage]
    ELSE IF d[1] \div 64 # 1 THEN [err |-> "invalid version", msg |-> ZeroMessage]
    ELSE LET type == (d[1] \div 16) % 4
             tokenLen == d[1] % 16
             m1 == [ZeroMessage EXCEPT !.Type = type]
             m2 == [m1 EXCEPT !.Code = d[2], !.MessageID = d[3] * Pow8 + d[4]]
         IN IF tokenLen > 8 THEN [err |-> "invalid token length", msg |-> m1]
            ELSE IF Len(d) < 4 + tokenLen
            THEN [err |-> "truncated",
                  msg |-> [m2 EXCEPT !.Token = [k \in 1..tokenLen |-> 0]]]
            ELSE LET m3 == [m2 EXCEPT !.Token = SubSeq(d, 5, 4 + tokenLen)]
                     p == parseOptions(SubSeq(d, 5 + tokenLen, Len(d)), 0, <<>>)
                 IN [err |-> p.err,
                     msg |-> [m3 EXCEPT !.opts = p.opts, !.Payload = p.Payload]]

ParseMessage(d) == UnmarshalBinary(d)

DecodeErrors ==
    {"short packet", "invalid version", "invalid token length", "truncated",
     "unexpected extended option marker"}

(***************************************************************************)
(* Values the variables hold while the part they belong to is not in use.  *)
(***************************************************************************)
NoMsg  == [ZeroMessage EXCEPT !.Code = 255]
NoPrev == [st |-> "none", b |-> <<>>]
NoWire == [st |-> "none", err |-> "nil", b |-> <<>>, deltas |-> <<>>,
           lengths |-> <<>>, vals |-> <<>>, prev |-> NoPrev]
NoRes  == [st |-> "none", err |-> "nil", msg |-> ZeroMessage]
NoCall == [op |-> "none", ID |-> 0, Value |-> VNil, before |-> <<>>]

IdleCodec ==
    /\ m = ZeroMessage /\ pre = NoMsg /\ ins = <<>> /\ wire = NoWire /\ rt = NoRes
    /\ call = NoCall
IdleDec == data = <<>> /\ res = NoRes
IdleSrv ==
    /\ heap = <<>> /\ tasks = <<>>
    /\ healthMonitorEnable = FALSE /\ closed = FALSE
    /\ serveRet = "running" /\ crashed = FALSE

(***************************************************************************)
(* The message codec: a message is built with AddOption, SetOption and     *)
(* RemoveOption, serialized by MarshalBinary and parsed back.              *)
(***************************************************************************)
InitMessages ==
    { [Type |-> Confirmable, Code |-> GET, MessageID |-> 4660,
       Token |-> <<>>, Payload |-> <<>>, opts |-> <<>>],
      [Type |-> Acknowledgement, Code |-> Content, MessageID |-> 1,
       Token |-> <<171>>, Payload |-> <<123, 125>>, opts |-> <<>>],
      [Type |-> NonConfirmable, Code |-> GET, MessageID |-> 2,
       Token |-> <<1, 2, 3, 4, 5, 6, 7, 8, 9>>, Payload |-> <<>>, opts |-> <<>>],
      [Type |-> Reset, Code |-> GET, MessageID |-> 3,
       Token |-> <<>>, Payload |-> <<255>>, opts |-> <<>>] }

\* the (option ID, value) arguments of AddOption and SetOption
Pool ==
    << [ID |-> URIPath,       Value |-> VString(<<97>>)],
       [ID |-> URIPath,       Value |-> VString(<<98>>)],
       [ID |-> URIPort,       Value |-> VUint32(5)],
       [ID |-> ContentFormat, Value |-> VMedia(AppJSON)],
       [ID |-> MaxAge,        Value |-> VUint32(300)],
       [ID |-> MaxAge,        Value |-> VInt(5)],
       [ID |-> URIPort,       Value |-> VString(<<97>>)],
       [ID |-> URIPath,       Value |-> VInt(7)],
       [ID |-> 999,           Value |-> VUint32(1)],
       [ID |-> URIPath,       Value |-> VBool(1)],
       [ID |-> IfNoneMatch,   Value |-> VBytes(<<97>>)],
       [ID |-> URIPath,       Value |-> VStrings(<< <<97>>, <<98>> >>)] >>

PoolIDs == {Pool[k].ID : k \in 1..Len(Pool)}

InitCodec ==
    /\ m \in InitMessages
    /\ pre = NoMsg /\ ins = <<>> /\ wire = NoWire /\ rt = NoRes
    /\ call = NoCall
    /\ IdleDec /\ IdleSrv

\* m.AddOption(p.ID, p.Value)
AddOptionFrom(p, max) ==
    /\ Len(addOption(m.opts, p.ID, p.Value)) <= max
    /\ m' = [m EXCEPT !.opts = addOption(m.opts, p.ID, p.Value)]
    /\ ins' = addOption(ins, p.ID, p.Value)
    /\ pre' = NoMsg /\ wire' = NoWire /\ rt' = NoRes
    /\ UNCHANGED <<call, decVars, srvVars>>

AddOption == \E k \in 1..Len(Pool) : AddOptionFrom(Pool[k], MaxOpts)

\* m.SetOption(p.ID, p.Value)
SetOption ==
    \E k \in 1..Len(Pool) :
        /\ Len(setOption(m.opts, Pool[k].ID, Pool[k].Value)) <= MaxOpts
        /\ m' = [m EXCEPT !.opts = setOption(m.opts, Pool[k].ID, Pool[k].Value)]
        /\ ins' = setOption(ins, Pool[k].ID, Pool[k].Value)
        /\ pre' = NoMsg /\ wire' = NoWire /\ rt' = NoRes
        /\ UNCHANGED <<call, decVars, srvVars>>

\* m.RemoveOption(id)
RemoveOption ==
    \E id \in PoolIDs :
        /\ m' = [m EXCEPT !.opts = removeOption(m.opts, id)]
        /\ ins' = removeOption(ins, id)
        /\ pre' = NoMsg /\ wire' = NoWire /\ rt' = NoRes
        /\ UNCHANGED <<call, decVars, srvVars>>

\* d, err := m.MarshalBinary(): sorts m.opts in place and returns the bytes
Marshal ==
    /\ wire.st = "none"
    /\ LET r == MarshalBinary(m) IN
         /\ pre' = m
         /\ m' = [m EXCEPT !.opts = r.opts]
         /\ wire' = [st |-> r.st, err |-> r.err, b |-> r.b,
                     deltas |-> r.deltas, lengths |-> r.lengths, vals |-> r.vals,
                     prev |-> NoPrev]
    /\ rt' = NoRes
    /\ UNCHANGED <<ins, call, decVars, srvVars>>

\* a second m.MarshalBinary() on the message the last call left; wire.prev
\* keeps what that last call produced
MarshalAgain ==
    /\ wire.st # "none" /\ wire.prev.st = "none"
    /\ LET r == MarshalBinary(m) IN
         /\ pre' = m
         /\ m' = [m EXCEPT !.opts = r.opts]
         /\ wire' = [st |-> r.st, err |-> r.err, b |-> r.b,
                     deltas |-> r.deltas, lengths |-> r.lengths, vals |-> r.vals,
                     prev |-> [st |-> wire.st, b |-> wire.b]]
    /\ rt' = NoRes
    /\ UNCHANGED <<ins, call, decVars, srvVars>>

\* ParseMessage(d) on the bytes MarshalBinary returned
ParseBack ==
    /\ wire.st = "ok"
    /\ rt.st = "none"
    /\ LET r == ParseMessage(wire.b) IN
         rt' = [st |-> "done", err |-> r.err, msg |-> r.msg]
    /\ UNCHANGED <<m, pre, ins, wire, call, decVars, srvVars>>

Next == AddOption \/ SetOption \/ RemoveOption \/ Marshal \/ MarshalAgain \/ ParseBack

Spec == InitCodec /\ [][Next]_vars

(***************************************************************************)
(* Definitions the properties of the codec are stated with.                *)
(***************************************************************************)
IDsOf(o) == {o[k].ID : k \in 1..Len(o)}

\* the entries of o whose ID is id, in the order of o
SelectID(o, id) ==
    LET F[k \in 0..Len(o)] ==
          IF k = 0 THEN <<>>
          ELSE IF o[k].ID = id THEN Append(F[k - 1], o[k]) ELSE F[k - 1]
    IN F[Len(o)]

\* o stably sorted by ID: for each ID in ascending order, its entries in the
\* order they have in o
RECURSIVE StableByID(_, _)
StableByID(o, ids) ==
    IF ids = {} THEN <<>>
    ELSE LET lo == CHOOSE x \in ids : \A y \in ids : x <= y
         IN SelectID(o, lo) \o StableByID(o, ids \ {lo})

Expected(msg) == [msg EXCEPT !.opts = StableByID(msg.opts, IDsOf(msg.opts))]

\* the dynamic type the decoder gives the value of a registered option
DecodedType(id) ==
    LET f == optionDefs(id).valueFormat IN
    IF f = "valueString" THEN "string"
    ELSE IF f \in {"valueOpaque", "valueEmpty"} THEN "[]byte"
    ELSE IF id \in {ContentFormat, Accept} THEN "MediaType"
    ELSE "uint32"

\* an option the decoder records as it is: a registered ID, a value of the
\* type the decoder produces for it, an encoded length within the registry's
\* range
CanonicalOption(o) ==
    /\ o.ID < optionDefsLen
    /\ optionDefs(o.ID).valueFormat # "valueUnknown"
    /\ o.Value.type = DecodedType(o.ID)
    /\ Len(toBytes(o).b) >= optionDefs(o.ID).minLen
    /\ Len(toBytes(o).b) <= optionDefs(o.ID).maxLen

WellFormed(msg) ==
    /\ msg.Type \in {Confirmable, NonConfirmable, Acknowledgement, Reset}
    /\ Len(msg.Token) <= 8
    /\ \A k \in 1..Len(msg.opts) : CanonicalOption(msg.opts[k])

Unsorted(o) == \E k \in 1..(Len(o) - 1) : o[k].ID > o[k + 1].ID

(* C2, as claimed: for every message m for which MarshalBinary returns no
   error, whatever its token length, option IDs and option value lengths,
   ParseMessage(MarshalBinary(m)) succeeds and yields m with its option list
   stably sorted by ID. *)
C2_RoundTripAnyMessage ==
    rt.st = "done" => (rt.err = "nil" /\ rt.msg = Expected(pre))

(* C2, amended: for every well-formed message m (one of the four message
   types, a token of at most 8 bytes, every option with a registered ID, a
   value of the type the decoder produces for that ID and an encoded length
   within the registry's range), ParseMessage(MarshalBinary(m)) succeeds and
   yields m with its option list stably sorted by ID. *)
C2_RoundTripWellFormed ==
    (rt.st = "done" /\ WellFormed(pre)) => (rt.err = "nil" /\ rt.msg = Expected(pre))

C2_Witness ==
    /\ rt.st = "done" /\ WellFormed(pre)
    /\ Len(pre.opts) >= 3 /\ Unsorted(pre.opts)
    /\ \E k \in 1..Len(pre.opts) : pre.opts[k].ID = MaxAge
    /\ Len(pre.Payload) > 0 /\ Len(pre.Token) > 0

\* the value's type does not fit the format registered for the option's ID
Mismatched(o) ==
    LET f == optionDefs(o.ID).valueFormat IN
    \/ f = "valueString" /\ o.Value.type # "string"
    \/ f \in {"valueOpaque", "valueEmpty"} /\ o.Value.type # "[]byte"
    \/ f = "valueUint" /\ o.Value.type \notin {"MediaType", "int", "int32", "uint", "uint32"}

SupportedTypes == {"string", "[]byte", "MediaType", "int", "int32", "uint", "uint32"}

(* C7, as claimed: whenever a message holds an option whose value type is
   incompatible with the format registered for its ID, MarshalBinary panics
   and emits no bytes. *)
C7_TypeMismatchFatal ==
    (wire.st # "none" /\ \E k \in 1..Len(pre.opts) : Mismatched(pre.opts[k]))
        => (wire.st = "panic" /\ wire.b = <<>>)

(* C7, amended: MarshalBinary panics, emitting no bytes, exactly when some
   option's value has a Go type other than string, []byte, MediaType, int,
   int32, uint and uint32; the format registered for the option's ID is not
   consulted, so a value of one of these types is serialized whatever the
   ID. *)
C7_UnsupportedTypeFatal ==
    wire.st # "none" =>
        /\ (wire.st = "panic") <=>
              (\E k \in 1..Len(pre.opts) : pre.opts[k].Value.type \notin SupportedTypes)
        /\ (wire.st = "panic" => wire.b = <<>>)
        /\ (wire.st = "ok" => Len(wire.vals) = Len(pre.opts))

C7_Witness ==
    /\ wire.st = "panic"
    /\ Len(pre.opts) >= 2
    /\ \E k \in 1..Len(pre.opts) : pre.opts[k].Value.type \in SupportedTypes

\* the ID of the k-th emitted option: the sum of the deltas written so far
RECURSIVE EmittedID(_, _)
EmittedID(deltas, k) == IF k = 0 THEN 0 ELSE EmittedID(deltas, k - 1) + deltas[k]

\* the value bytes emitted under ID id, in the order of emission
EmittedValues(w, id) ==
    LET F[k \in 0..Len(w.vals)] ==
          IF k = 0 THEN <<>>
          ELSE IF EmittedID(w.deltas, k) = id THEN Append(F[k - 1], w.vals[k])
               ELSE F[k - 1]
    IN F[Len(w.vals)]

\* the value bytes of the entries of o with ID id, in the order of o
InsertedValues(o, id) ==
    LET s == SelectID(o, id) IN [k \in 1..Len(s) |-> toBytes(s[k]).b]

(* C9: for a message built by any sequence of AddOption, SetOption and
   RemoveOption calls, MarshalBinary emits the options in non-decreasing ID
   order (no encoded delta is negative), options of one ID are contiguous,
   and options of one ID are emitted in the order they were inserted. *)
C9_WireOrder ==
    wire.st = "ok" =>
        /\ Len(wire.deltas) = Len(ins)
        /\ \A k \in 1..Len(wire.deltas) : wire.deltas[k] >= 0
        /\ \A i, j, k \in 1..Len(wire.deltas) :
              (i < j /\ j < k /\ EmittedID(wire.deltas, i) = EmittedID(wire.deltas, k))
                  => EmittedID(wire.deltas, j) = EmittedID(wire.deltas, i)
        /\ \A id \in IDsOf(ins) : EmittedValues(wire, id) = InsertedValues(ins, id)

C9_Witness ==
    /\ wire.st = "ok"
    /\ Unsorted(ins)
    /\ \E i, j \in 1..Len(ins) :
          i < j /\ ins[i].ID = ins[j].ID /\ ins[i].Value # ins[j].Value


(* C14: MarshalBinary leaves type, code, message ID, token and payload
   unchanged and only reorders the option list (a stable sort by ID), so
   for every ID Options(id) and Option(id) are the same before and after
   the call; and marshalling the same message twice yields identical
   bytes. *)
C14_MarshalKeepsMeaning ==
    wire.st # "none" =>
        /\ m.Type = pre.Type /\ m.Code = pre.Code /\ m.MessageID = pre.MessageID
        /\ m.Token = pre.Token /\ m.Payload = pre.Payload
        /\ m.opts = StableByID(pre.opts, IDsOf(pre.opts))
        /\ \A id \in PoolIDs \cup {ETag} :
              /\ Options(m, id) = Options(pre, id)
              /\ Option(m, id) = Option(pre, id)
        /\ wire.prev.st # "none" => (wire.st = wire.prev.st /\ wire.b = wire.prev.b)

\* a message whose options were inserted out of order, with two values of
\* one ID, has been marshalled twice
C14_Witness ==
    /\ wire.st = "ok" /\ wire.prev.st = "ok"
    /\ Unsorted(ins)
    /\ \E i, j \in 1..Len(ins) :
          i < j /\ ins[i].ID = ins[j].ID /\ ins[i].Value # ins[j].Value
    /\ Len(m.opts) = Len(ins)

(***************************************************************************)
(* The encoder on option gaps and option values at the edge of the 2-byte  *)
(* extension: messages of a few options, some 65804 or 65805 apart or long.*)
(***************************************************************************)
\* the largest delta or length a 2-byte extension holds
maxExtValue == (Pow16 - 1) + extoptWordAddend

LongValue(n) == [k \in 1..n |-> 97]

OverflowPool ==
    << [ID |-> URIPath,           Value |-> VString(<<97>>)],
       [ID |-> URIPort,           Value |-> VUint32(5)],
       [ID |-> PackageNumber,     Value |-> VUint32(1)],
       [ID |-> maxExtValue,       Value |-> VString(<<>>)],
       [ID |-> maxExtValue + 1,   Value |-> VString(<<>>)],
       [ID |-> URIPath + maxExtValue + 1, Value |-> VString(<<98>>)],
       [ID |-> ProxyURI,          Value |-> VString(LongValue(maxExtValue))],
       [ID |-> ProxyURI,          Value |-> VString(LongValue(maxExtValue + 1))] >>

AddOverflowOption ==
    \E k \in 1..Len(OverflowPool) : AddOptionFrom(OverflowPool[k], MaxOverflowOpts)

NextOverflow == AddOverflowOption \/ Marshal

SpecOverflow == InitCodec /\ [][NextOverflow]_vars

(* C3: when MarshalBinary meets an option whose ID delta from the previously
   emitted option exceeds 65804 it returns ErrOptionGapTooLarge, and when an
   option's value is longer than 65804 bytes it returns ErrOptionTooLong;
   nothing is emitted for such a message. *)
C3_OverflowReported ==
    wire.st # "none" =>
        /\ (\E k \in 1..Len(m.opts) :
               m.opts[k].ID - (IF k = 1 THEN 0 ELSE m.opts[k - 1].ID) > maxExtValue)
             => (wire.err = "ErrOptionGapTooLarge" /\ wire.b = <<>>)
        /\ (\E k \in 1..Len(pre.opts) : Len(toBytes(pre.opts[k]).b) > maxExtValue)
             => (wire.err = "ErrOptionTooLong" /\ wire.b = <<>>)

(***************************************************************************)
(* The decoder on arbitrary datagrams: ParseMessage applied to byte        *)
(* strings that need not come from the encoder.                            *)
(***************************************************************************)
\* byte 0 of the header: version 1 with token length 0, 1 and 9; version 0
FirstBytes == {64, 65, 73, 0}

\* option headers: delta 3 length 0, delta 2 length 1, delta 1 length 1,
\* delta extended by a byte, delta extended by a word, length nibble 15;
\* and 0xFF, the payload marker and the largest extension byte
BodyBytes == {48, 33, 17, 208, 224, 15, 255}

RECURSIVE SeqsUpTo(_, _)
SeqsUpTo(S, n) ==
    IF n = 0 THEN {<<>>}
    ELSE LET shorter == SeqsUpTo(S, n - 1)
         IN shorter \cup {Append(q, x) : q \in {r \in shorter : Len(r) = n - 1}, x \in S}

\* bytes after the header of the datagrams that exercise the token: nine
\* distinct bytes, the payload marker and one payload byte
TokenTail == <<161, 162, 163, 164, 165, 166, 167, 168, 169, 255, 7>>

\* version 1, each message type, each value of the token length nibble,
\* followed by every prefix of TokenTail
TokenDatagrams ==
    {<<64 + 16 * ty + tl, 1, 0, 1>> \o SubSeq(TokenTail, 1, n) :
        ty \in 0..3, tl \in 0..15, n \in 0..Len(TokenTail)}

Datagrams ==
    {SubSeq(<<64, 1, 0>>, 1, n) : n \in 0..3}
        \cup {<<f, 1, 0, 1>> \o t : f \in FirstBytes, t \in SeqsUpTo(BodyBytes, MaxBody)}
        \cup TokenDatagrams

InitDec ==
    /\ data \in Datagrams
    /\ res = NoRes
    /\ IdleCodec /\ IdleSrv

\* msg, err := ParseMessage(data)
Decode ==
    /\ res.st = "none"
    /\ LET r == ParseMessage(data) IN
         res' = [st |-> "done", err |-> r.err, msg |-> r.msg]
    /\ UNCHANGED <<data, codecVars, srvVars>>

NextDec == Decode

SpecDec == InitDec /\ [][NextDec]_vars

(* C1: for every input byte string, ParseMessage either returns a message
   or returns one of the five decode errors, and never panics. *)
C1_DecoderTotal ==
    res.st = "done" => res.err \in (DecodeErrors \cup {"nil"})

(***************************************************************************)
(* The options a datagram carries, read off the wire format alone          *)
(* (RFC 7252 section 3.1), with no registry: each nibble below 13 is       *)
(* literal, 13 and 14 extend by one and two bytes, 15 is reserved.         *)
(***************************************************************************)
NibbleSize(n) == IF n = 13 THEN 1 ELSE IF n = 14 THEN 2 ELSE 0

NibbleValue(n, x) ==
    IF n = 13 THEN x[1] + 13
    ELSE IF n = 14 THEN x[1] * 256 + x[2] + 269
    ELSE n

RECURSIVE WireOptions(_, _)
WireOptions(b, prev) ==
    IF Len(b) = 0 THEN [ok |-> TRUE, opts |-> <<>>, payload |-> <<>>]
    ELSE IF b[1] = 255 THEN [ok |-> TRUE, opts |-> <<>>, payload |-> Tail(b)]
    ELSE LET dn == b[1] \div 16
             ln == b[1] % 16
             hl == 1 + NibbleSize(dn) + NibbleSize(ln)
         IN IF dn = 15 \/ ln = 15 \/ Len(b) < hl
            THEN [ok |-> FALSE, opts |-> <<>>, payload |-> <<>>]
            ELSE LET id == prev + NibbleValue(dn, SubSeq(b, 2, 1 + NibbleSize(dn)))
                     n  == NibbleValue(ln, SubSeq(b, 2 + NibbleSize(dn), hl))
                 IN IF Len(b) < hl + n
                    THEN [ok |-> FALSE, opts |-> <<>>, payload |-> <<>>]
                    ELSE LET rest == WireOptions(SubSeq(b, hl + n + 1, Len(b)), id)
                         IN [ok      |-> rest.ok,
                             opts    |-> <<[ID |-> id, val |-> SubSeq(b, hl + 1, hl + n)]>>
                                           \o rest.opts,
                             payload |-> rest.payload]

\* the header of d is well-formed and its token is present
HeaderOK(d) ==
    Len(d) >= 4 /\ d[1] \div 64 = 1 /\ (d[1] % 16) <= 8 /\ Len(d) >= 4 + (d[1] % 16)

OnWire(d) == WireOptions(SubSeq(d, 5 + (d[1] % 16), Len(d)), 0)

\* the registry has the ID and the value's length is within its range
Registered(id) ==
    id \in {IfMatch, URIHost, ETag, IfNoneMatch, Observe, URIPort, LocationPath,
            URIPath, ContentFormat, MaxAge, URIQuery, Accept, LocationQuery,
            ProxyURI, ProxyScheme, Size1, GiterLabID, GiterLabKey, AccessID,
            AccessKey, CheckCRC32, EncoderType, EncoderID, Flags, PackageNumber}

Kept(w) ==
    /\ Registered(w.ID)
    /\ Len(w.val) >= optionDefs(w.ID).minLen
    /\ Len(w.val) <= optionDefs(w.ID).maxLen

TypedValue(w) ==
    LET t == DecodedType(w.ID) IN
    IF t = "string" THEN VString(w.val)
    ELSE IF t = "[]byte" THEN VBytes(w.val)
    ELSE IF t = "MediaType" THEN VMedia(decodeInt(w.val))
    ELSE VUint32(decodeInt(w.val))

\* the options of w that are kept, typed, in wire order
KeptOptions(w) ==
    LET F[k \in 0..Len(w)] ==
          IF k = 0 THEN <<>>
          ELSE IF Kept(w[k])
               THEN Append(F[k - 1], [ID |-> w[k].ID, Value |-> TypedValue(w[k])])
               ELSE F[k - 1]
    IN F[Len(w)]

(* C8: an option on the wire whose ID is not in the registry, or whose value
   length is outside the registry's range for its ID, is not recorded but
   does not fail the parse: a datagram with a well-formed header and
   well-formed option framing parses without error, the decoded message
   holds exactly the other options of the wire, each with the ID and value
   it has on the wire, and the payload is what follows the marker. *)
C8_DroppedOptionsHarmless ==
    (res.st = "done" /\ HeaderOK(data) /\ OnWire(data).ok) =>
        /\ res.err = "nil"
        /\ res.msg.opts = KeptOptions(OnWire(data).opts)
        /\ res.msg.Payload = OnWire(data).payload


(* C11: for every datagram of at least 4 bytes with version 1 whose token
   length nibble is 9 to 15, decoding returns ErrInvalidTokenLen whatever
   bytes follow; for a nibble of 0 to 8 with that many bytes present after
   the 4-byte header, the token the decoder stores is exactly those bytes. *)
C11_TokenLength ==
    (res.st = "done" /\ Len(data) >= 4 /\ data[1] \div 64 = 1) =>
        LET tokenLen == data[1] % 16 IN
        /\ tokenLen \in 9..15 => res.err = "invalid token length"
        /\ (tokenLen \in 0..8 /\ Len(data) >= 4 + tokenLen) =>
              /\ res.err # "invalid token length"
              /\ res.msg.Token = SubSeq(data, 5, 4 + tokenLen)

\* a datagram with nibble 9 and more than nine bytes after the header is
\* refused
C11_Witness ==
    /\ res.st = "done"
    /\ Len(data) > 13 /\ data[1] \div 64 = 1 /\ data[1] % 16 = 9
    /\ res.err = "invalid token length"

(***************************************************************************)
(* The datagram server: Serve reads datagrams into one buffer and starts a *)
(* handlePacket goroutine for each; the goroutines run concurrently with   *)
(* the read loop, with HealthMonitor and with the closing of the listener. *)
(***************************************************************************)
RUOK == <<82, 85, 79, 75>>
IMOK == <<73, 77, 79, 75>>

\* what arrives at the listener: (datagram, source address)
Arrivals ==
    { [d |-> RUOK,                            a |-> "peerA"],
      [d |-> <<64, 1, 0, 1, 177, 97>>,        a |-> "peerA"],
      [d |-> <<65, 1, 0, 2, 171, 177, 98>>,   a |-> "peerB"],
      [d |-> <<64, 1, 0>>,                    a |-> "peerA"],
      [d |-> <<64, 1, 0, 1, 224, 255, 255>>,  a |-> "peerB"] }

\* what the application's handler does with a request: return nil, panic,
\* return a response, return a response that MarshalBinary cannot serialize
HandlerOutcomes == {"nil", "panic", "respond", "bad"}

Response(req) ==
    [Type |-> Acknowledgement, Code |-> Content, MessageID |-> req.MessageID,
     Token |-> req.Token, Payload |-> <<123, 125>>,
     opts |-> << [ID |-> ContentFormat, Value |-> VMedia(AppJSON)] >>]

BadResponse(req) ==
    [Response(req) EXCEPT !.opts = << [ID |-> ContentFormat, Value |-> VBool(1)] >>]

\* the test of lines 65-67
IsProbe_IgnoreFlag(hm, d) ==
    Len(d) = 4 /\ d[1] = 82 /\ d[2] = 85 /\ d[3] = 79 /\ d[4] = 75

IsProbe(hm, d) ==
    hm /\ Len(d) = 4 /\ d[1] = 82 /\ d[2] = 85 /\ d[3] = 79 /\ d[4] = 75

\* Transmit(l, a, m): serialize and write to a; MarshalBinary may panic
Transmit(a, rv) ==
    LET r == MarshalBinary(rv) IN
    IF r.st = "panic" THEN [panic |-> TRUE, sent |-> <<>>]
    ELSE [panic |-> FALSE, sent |-> <<[to |-> a, b |-> r.b, by |-> "Transmit"]>>]

\* the body of handlePacket on data d from u, with the flag read as hm and a
\* handler that behaves as h: what it did, and whether it ended in a panic
NoOutcome ==
    [probe |-> FALSE, parsed |-> FALSE, perr |-> "nil", handled |-> 0,
     hret |-> "none", panicked |-> FALSE, sent |-> <<>>]

\* handlePacket without the return of lines 76-79: a datagram that failed to
\* parse is handed to the handler like one that parsed
handlePacket_IgnoreParseError(d, u, hm, h) ==
    IF IsProbe(hm, d)
    THEN [NoOutcome EXCEPT !.probe = TRUE,
                           !.sent = <<[to |-> u, b |-> IMOK, by |-> "probe"]>>]
    ELSE LET r == ParseMessage(d) IN
         IF r.err = "panic"
         THEN [NoOutcome EXCEPT !.parsed = TRUE, !.perr = r.err, !.panicked = TRUE]
         ELSE LET called == [NoOutcome EXCEPT !.parsed = TRUE, !.perr = r.err,
                                              !.handled = 1, !.hret = h]
              IN IF h = "panic" THEN [called EXCEPT !.panicked = TRUE]
                 ELSE IF h = "nil" THEN called
                 ELSE LET t == Transmit(u, IF h = "respond" THEN Response(r.msg)
                                           ELSE BadResponse(r.msg))
                      IN [called EXCEPT !.panicked = t.panic, !.sent = t.sent]

handlePacket(d, u, hm, h) ==
    IF IsProbe(hm, d)
    THEN [NoOutcome EXCEPT !.probe = TRUE,
                           !.sent = <<[to |-> u, b |-> IMOK, by |-> "probe"]>>]
    ELSE LET r == ParseMessage(d) IN
         IF r.err = "panic"
         THEN [NoOutcome EXCEPT !.parsed = TRUE, !.perr = r.err, !.panicked = TRUE]
         ELSE IF r.err # "nil"
         THEN [NoOutcome EXCEPT !.parsed = TRUE, !.perr = r.err]
         ELSE LET called == [NoOutcome EXCEPT !.parsed = TRUE, !.handled = 1, !.hret = h]
              IN IF h = "panic" THEN [called EXCEPT !.panicked = TRUE]
                 ELSE IF h = "nil" THEN called
                 ELSE LET t == Transmit(u, IF h = "respond" THEN Response(r.msg)
                                           ELSE BadResponse(r.msg))
                      IN [called EXCEPT !.panicked = t.panic, !.sent = t.sent]

\* the deferred function of handlePacket: recover() ends a panic of the
\* goroutine; an unrecovered panic would end the process
Recover_None(panicking) == panicking

Recover(panicking) == FALSE

\* tmp := make([]byte, nr); copy(tmp, buf): a new buffer holding the first nr
\* bytes of the read buffer h[1]
MakeTmp_Alias(h, nr) == [heap |-> h, ref |-> 1]

MakeTmp(h, nr) == [heap |-> Append(h, SubSeq(h[1], 1, nr)), ref |-> Len(h) + 1]

\* the bytes of the slice a goroutine holds
DataOf(h, t) == SubSeq(h[t.ref], 1, t.n)

Min(a, b) == IF a < b THEN a ELSE b

InitSrv ==
    /\ heap = << [k \in 1..maxPktLen |-> 0] >>
    /\ tasks = <<>>
    /\ healthMonitorEnable = FALSE
    /\ closed = FALSE
    /\ serveRet = "running"
    /\ crashed = FALSE
    /\ IdleCodec /\ IdleDec

Serving == serveRet = "running" /\ ~crashed

\* one iteration of Serve's loop in which ReadFromUDP returns a datagram
ServeRead ==
    \E x \in Arrivals :
        /\ Serving /\ ~closed
        /\ Len(tasks) < MaxPackets
        /\ LET nr == Min(Len(x.d), maxPktLen)
               h1 == [heap EXCEPT ![1] = SubSeq(x.d, 1, nr) \o SubSeq(heap[1], nr + 1, maxPktLen)]
               tmp == MakeTmp(h1, nr)
           IN /\ heap' = tmp.heap
              /\ tasks' = Append(tasks,
                    [ref |-> tmp.ref, n |-> nr, from |-> x.a, dgram |-> SubSeq(x.d, 1, nr),
                     afterFault |-> \E i \in 1..Len(tasks) : tasks[i].out.panicked,
                     st |-> "ready", hm |-> FALSE, seen |-> <<>>, out |-> NoOutcome])
        /\ UNCHANGED <<healthMonitorEnable, closed, serveRet, crashed, codecVars, decVars>>

\* one iteration in which ReadFromUDP fails with a temporary or timeout
\* error: time.Sleep(5 * time.Millisecond); continue. Nothing but the loop's
\* own err, dead at the next iteration, changes.
ServeReadTemporary ==
    /\ Serving /\ ~closed
    /\ UNCHANGED vars

\* one iteration in which ReadFromUDP fails because the listener is closed,
\* an error that is neither temporary nor a timeout: the error is logged
\* when debugging is on, and the loop continues. No statement of Serve
\* returns, so serveRet is never changed.
ServeReadClosed ==
    /\ Serving /\ closed
    /\ UNCHANGED vars

\* the owner of the listener closes it
Close ==
    /\ ~closed
    /\ closed' = TRUE
    /\ UNCHANGED <<heap, tasks, healthMonitorEnable, serveRet, crashed,
                   codecVars, decVars>>

\* HealthMonitor(enable)
HealthMonitor ==
    \E enable \in BOOLEAN :
        /\ healthMonitorEnable' = enable
        /\ UNCHANGED <<heap, tasks, closed, serveRet, crashed, codecVars, decVars>>

\* a started goroutine that has not run yet runs unless the process has ended
Runnable(i) == ~crashed /\ tasks[i].st = "ready"

\* the goroutine "go handlePacket(listener, tmp, addr, rh)" of task i runs
HandlePacket(i) ==
    /\ Runnable(i)
    /\ \E h \in HandlerOutcomes :
          LET d == DataOf(heap, tasks[i])
              o == handlePacket(d, tasks[i].from, healthMonitorEnable, h)
          IN /\ tasks' = [tasks EXCEPT ![i].st = "done",
                                       ![i].hm = healthMonitorEnable,
                                       ![i].seen = d,
                                       ![i].out = o]
             /\ crashed' = Recover(o.panicked)
    /\ UNCHANGED <<heap, healthMonitorEnable, closed, serveRet, codecVars, decVars>>

RunTask == \E i \in 1..Len(tasks) : HandlePacket(i)

NextSrv ==
    ServeRead \/ ServeReadTemporary \/ ServeReadClosed \/ Close \/ HealthMonitor \/ RunTask

SpecServe == InitSrv /\ [][NextSrv]_vars

\* the Serve goroutine keeps being scheduled, and a read on a closed listener
\* returns at once; every started goroutine runs
FairServe ==
    /\ InitSrv /\ [][NextSrv]_vars
    /\ WF_vars(ServeReadClosed)
    /\ WF_vars(RunTask)

(* C4: once the listener is closed, so that every later read fails with an
   error that is neither temporary nor a timeout, Serve eventually returns
   with an I/O error. *)
C4_ServeReturnsWhenClosed == closed ~> (serveRet # "running")

(* C5: a panic raised while one datagram is processed (in parsing, in the
   handler, or in serializing the response) is confined to that datagram's
   goroutine: the process is not ended, the read loop keeps running and can
   take the next datagram, and every dispatched datagram can still be
   processed. *)
C5_FaultIsolation ==
    /\ ~crashed
    /\ serveRet = "running"
    /\ (~closed /\ Len(tasks) < MaxPackets) => ENABLED ServeRead
    /\ \A i \in 1..Len(tasks) : tasks[i].st = "ready" => Runnable(i)

C5_Witness ==
    \E i, j \in 1..Len(tasks) :
        /\ tasks[i].out.panicked
        /\ tasks[j].afterFault /\ tasks[j].st = "done"
        /\ tasks[j].out.handled = 1 /\ ~tasks[j].out.panicked
        /\ Len(tasks[j].out.sent) = 1

(* C6: when the health-monitor flag is set, a datagram that is exactly the 4
   bytes RUOK causes exactly one reply IMOK to the sending peer and is
   neither parsed as CoAP nor passed to the handler; when the flag is not
   set, the probe path produces no IMOK and the datagram goes through CoAP
   parsing. *)
C6_LivenessProbe ==
    \A i \in 1..Len(tasks) :
        tasks[i].st = "done" =>
            /\ (tasks[i].hm /\ tasks[i].dgram = RUOK) =>
                  /\ tasks[i].out.sent = <<[to |-> tasks[i].from, b |-> IMOK, by |-> "probe"]>>
                  /\ ~tasks[i].out.parsed
                  /\ tasks[i].out.handled = 0
            /\ ~tasks[i].hm =>
                  /\ tasks[i].out.parsed
                  /\ \A k \in 1..Len(tasks[i].out.sent) : tasks[i].out.sent[k].by # "probe"

C6_Witness ==
    \E i, j \in 1..Len(tasks) :
        /\ tasks[i].st = "done" /\ tasks[i].dgram = RUOK /\ tasks[i].hm
        /\ tasks[i].out.probe
        /\ tasks[j].st = "done" /\ tasks[j].dgram = RUOK /\ ~tasks[j].hm
        /\ tasks[j].out.perr = "truncated"

(* C10: under every interleaving of the read loop with the goroutines, the
   bytes a goroutine holds and parses are exactly the n bytes of the
   datagram it was dispatched for; later reads into the shared buffer do not
   change them. *)
C10_TaskOwnsBuffer ==
    \A i \in 1..Len(tasks) :
        /\ tasks[i].st = "ready" => DataOf(heap, tasks[i]) = tasks[i].dgram
        /\ tasks[i].st = "done" => tasks[i].seen = tasks[i].dgram

C10_Witness ==
    \E i \in 1..Len(tasks) :
        /\ tasks[i].st = "ready"
        /\ Len(tasks) > i
        /\ SubSeq(heap[1], 1, tasks[i].n) # tasks[i].dgram

(* C12: for each inbound datagram the handler is invoked at most once, and
   only if the datagram parsed successfully and was not answered as a
   liveness probe; a datagram that fails to parse causes no handler
   invocation and no transmission; a response is transmitted only when the
   handler returned a message, it is the serialization of that message, and
   it is sent to the source address of that same datagram. *)
C12_DispatchDiscipline ==
    \A i \in 1..Len(tasks) :
        tasks[i].st = "done" =>
            LET t == tasks[i]
                r == ParseMessage(t.dgram)
                byTransmit == {k \in 1..Len(t.out.sent) : t.out.sent[k].by = "Transmit"}
            IN /\ t.out.handled \in {0, 1}
               /\ t.out.handled = 1 => (r.err = "nil" /\ ~IsProbe(t.hm, t.dgram))
               /\ (~IsProbe(t.hm, t.dgram) /\ r.err # "nil") =>
                     (t.out.handled = 0 /\ t.out.sent = <<>>)
               /\ Cardinality(byTransmit) <= 1
               /\ \A k \in byTransmit :
                     /\ t.out.handled = 1
                     /\ t.out.hret = "respond"
                     /\ t.out.sent[k].to = t.from
                     /\ t.out.sent[k].b = MarshalBinary(Response(r.msg)).b

\* one datagram failed to parse and was dropped; another, from peerB, was
\* handled and its response sent to peerB
C12_Witness ==
    \E i, j \in 1..Len(tasks) :
        /\ tasks[i].st = "done" /\ tasks[i].out.perr = "short packet"
        /\ tasks[i].out.handled = 0 /\ tasks[i].out.sent = <<>>
        /\ tasks[j].st = "done" /\ tasks[j].from = "peerB"
        /\ tasks[j].out.handled = 1 /\ tasks[j].out.hret = "respond"
        /\ Len(tasks[j].out.sent) = 1 /\ tasks[j].out.sent[1].to = "peerB"

(***************************************************************************)
(* The option calls on their own: AddOption, SetOption and RemoveOption    *)
(* applied to a message in any order, each call recorded with its          *)
(* arguments and the option list it found.                                 *)
(***************************************************************************)
\* the (option ID, value) arguments of the calls: single values, a slice of
\* strings, an empty slice of strings and a nil value
CallPool ==
    << [ID |-> URIPath, Value |-> VString(<<97>>)],
       [ID |-> URIPath, Value |-> VString(<<98>>)],
       [ID |-> URIPort, Value |-> VUint32(5)],
       [ID |-> URIPath, Value |-> VStrings(<< <<98>>, <<97>> >>)],
       [ID |-> URIPath, Value |-> VStrings(<<>>)],
       [ID |-> ETag,    Value |-> VNil] >>

CallIDs == {CallPool[k].ID : k \in 1..Len(CallPool)} \cup {MaxAge}

InitOptions ==
    /\ m \in InitMessages
    /\ pre = NoMsg /\ ins = <<>> /\ wire = NoWire /\ rt = NoRes
    /\ call = NoCall
    /\ IdleDec /\ IdleSrv

\* m.AddOption(p.ID, p.Value)
AddOptionCall ==
    \E k \in 1..Len(CallPool) :
        LET p == CallPool[k] IN
        /\ Len(addOption(m.opts, p.ID, p.Value)) <= MaxOpts
        /\ m' = [m EXCEPT !.opts = addOption(m.opts, p.ID, p.Value)]
        /\ call' = [op |-> "AddOption", ID |-> p.ID, Value |-> p.Value,
                    before |-> m.opts]
        /\ UNCHANGED <<pre, ins, wire, rt, decVars, srvVars>>

\* m.SetOption(p.ID, p.Value)
SetOptionCall ==
    \E k \in 1..Len(CallPool) :
        LET p == CallPool[k] IN
        /\ Len(setOption(m.opts, p.ID, p.Value)) <= MaxOpts
        /\ m' = [m EXCEPT !.opts = setOption(m.opts, p.ID, p.Value)]
        /\ call' = [op |-> "SetOption", ID |-> p.ID, Value |-> p.Value,
                    before |-> m.opts]
        /\ UNCHANGED <<pre, ins, wire, rt, decVars, srvVars>>

\* m.RemoveOption(id)
RemoveOptionCall ==
    \E id \in CallIDs :
        /\ m' = [m EXCEPT !.opts = removeOption(m.opts, id)]
        /\ call' = [op |-> "RemoveOption", ID |-> id, Value |-> VNil,
                    before |-> m.opts]
        /\ UNCHANGED <<pre, ins, wire, rt, decVars, srvVars>>

NextOptions == AddOptionCall \/ SetOptionCall \/ RemoveOptionCall

SpecOptions == InitOptions /\ [][NextOptions]_vars

\* the entries of o with an ID other than id, in the order of o
OtherEntries(o, id) ==
    LET Other(e) == e.ID # id IN SelectSeq(o, Other)

\* what Options(id) is to return after SetOption(id, v)
ValuesSet(v) ==
    IF v.type = "[]string" THEN [k \in 1..Len(v.b) |-> VString(v.b[k])]
    ELSE <<v>>

(* C13: after any sequence of AddOption, RemoveOption and SetOption calls,
   SetOption(id, v) leaves Options(id) equal to exactly [v] (when v is a
   sequence of strings, exactly its elements in order) and RemoveOption(id)
   leaves no entry with that ID; both leave the entries of every other ID
   unchanged in value and relative order. *)
C13_SetOptionReplaces ==
    /\ call.op = "SetOption" =>
          /\ Options(m, call.ID) = ValuesSet(call.Value)
          /\ OtherEntries(m.opts, call.ID) = OtherEntries(call.before, call.ID)
    /\ call.op = "RemoveOption" =>
          /\ Options(m, call.ID) = <<>>
          /\ \A k \in 1..Len(m.opts) : m.opts[k].ID # call.ID
          /\ OtherEntries(m.opts, call.ID) = OtherEntries(call.before, call.ID)

\* SetOption on an ID that had two entries, between entries of another ID
C13_Witness ==
    /\ call.op = "SetOption" /\ call.ID = URIPath
    /\ Len(SelectID(call.before, URIPath)) = 2
    /\ Len(OtherEntries(call.before, URIPath)) = 1
    /\ call.before[2].ID # URIPath
    /\ Len(m.opts) = 2
====
